---- MODULE Spec2Model ----
(***************************************************************************)
(* Attendance engine of attendo: the embedding store, student              *)
(* registration and deletion, the simulated meeting that feeds frames to   *)
(* process_frame, and the attendance aggregator.                           *)
(*                                                                         *)
(* Numbers.  An embedding is a vector of L2 norm 1; its components are     *)
(* kept in tenths, so a dot product of two embeddings is a similarity in   *)
(* hundredths (60 is 0.60).  Thresholds are in hundredths too.  Time is    *)
(* counted in ticks, TicksPerMinute ticks to the minute.                   *)
(***************************************************************************)
EXTENDS Integers, Sequences, FiniteSets, TLC

----------------------------------------------------------------------------
(* Bounds of the model *)

NumStudentIds == 2      \* distinct student_id strings a caller may send
MaxUploads == 2         \* files in the upload directory
MaxRowId == 2           \* largest rowid of table students
MaxSessions == 1        \* meetings ever started
MaxPings == 2           \* rows of the pings table
MaxTime == 2            \* last tick of the clock
MaxFaces == 2           \* faces the detector reports in one image
MaxFrames == 2          \* image files of the simulated meeting folder
TicksPerMinute == 2     \* clock resolution
AggBuckets == 5         \* capture minutes of the aggregator's input tables

None == "None"

StudentIds == {"S" \o ToString(i) : i \in 1..NumStudentIds}
Names == {"Ann"}

\* Unit vectors (in tenths): their similarity is 60, and 100 with themselves.
Embeddings == {<<10, 0>>, <<6, 8>>}

\* The values match_threshold and presence_threshold are configured with.
DefaultMatchThreshold == 60
DefaultPresenceThreshold == 60
MatchThresholds == {DefaultMatchThreshold, 80}
PresenceThresholds == {50, DefaultPresenceThreshold}

Max(a, b) == IF a >= b THEN a ELSE b
Min(a, b) == IF a <= b THEN a ELSE b

SeqsUpTo(S, n) == UNION {[1..k -> S] : k \in 0..n}

----------------------------------------------------------------------------
(* LocalVectorStore: _vectors is a dict, kept here as the sequence of its  *)
(* items in insertion order, which is the order a dict iterates in.        *)

Dot(a, b) == a[1] * b[1] + a[2] * b[2]

Keys(V) == {V[i].student_id : i \in 1..Len(V)}

IndexOf(V, sid) == CHOOSE i \in 1..Len(V) : V[i].student_id = sid

\* A store that adds an item on every call, also for an id it holds.
store_embedding_append(V, sid, e) ==
    Append(V, [student_id |-> sid, embedding |-> e])

\* self._vectors[student_id] = embedding: an existing key keeps its place.
store_embedding(V, sid, e) ==
    IF sid \in Keys(V)
    THEN [V EXCEPT ![IndexOf(V, sid)] = [student_id |-> sid, embedding |-> e]]
    ELSE Append(V, [student_id |-> sid, embedding |-> e])

\* self._vectors.pop(student_id, None)
delete_embedding(V, sid) ==
    SelectSeq(V, LAMBDA it : it.student_id # sid)

\* One step of list.sort(key=score, reverse=True): the sort is stable, so x
\* goes behind every element whose score is not lower.
InsertDesc(sorted, x) ==
    LET n == Cardinality({i \in 1..Len(sorted) : sorted[i].score >= x.score})
    IN SubSeq(sorted, 1, n) \o <<x>> \o SubSeq(sorted, n + 1, Len(sorted))

RECURSIVE SortDesc(_)
SortDesc(results) ==
    IF results = <<>> THEN <<>>
    ELSE InsertDesc(SortDesc(SubSeq(results, 1, Len(results) - 1)),
                    results[Len(results)])

\* results[:top_k]
Slice(results, top_k) ==
    IF top_k >= 0 THEN SubSeq(results, 1, Min(top_k, Len(results)))
    ELSE SubSeq(results, 1, Max(Len(results) + top_k, 0))

query_embedding(V, e, top_k) ==
    IF V = <<>> THEN <<>>
    ELSE LET results == [i \in 1..Len(V) |->
                            [student_id |-> V[i].student_id,
                             score |-> Dot(e, V[i].embedding)]]
         IN Slice(SortDesc(results), top_k)

----------------------------------------------------------------------------
(* Face detection is opaque: an image is known by the faces found in it.   *)

FaceLists == SeqsUpTo(Embeddings, MaxFaces)

\* detect_and_embed(image): one entry per detected face.
detect_and_embed(image) == image.faces

\* A version that takes the first face of several.
get_single_embedding_first_face(image) ==
    LET faces == detect_and_embed(image)
    IN IF Len(faces) = 0 THEN [error |-> "No face detected", embedding |-> None]
       ELSE [error |-> None, embedding |-> faces[1]]

\* get_single_embedding: the embedding, or the ValueError of 0 or >1 faces.
get_single_embedding(image) ==
    LET faces == detect_and_embed(image)
    IN IF Len(faces) = 0 THEN [error |-> "No face detected", embedding |-> None]
       ELSE IF Len(faces) > 1 THEN [error |-> "Expected 1 face", embedding |-> None]
       ELSE [error |-> None, embedding |-> faces[1]]

\* An uploaded photo: no bytes at all, bytes that are no image, or an image.
Photos == {[kind |-> "empty", faces |-> <<>>], [kind |-> "corrupt", faces |-> <<>>]}
          \cup {[kind |-> "image", faces |-> f] : f \in FaceLists}

----------------------------------------------------------------------------
(* State *)

VARIABLES
    settings,       \* Settings: the thresholds and the store backend in use
    vectors,        \* the embedding store's items
    students,       \* table students, in rowid order
    sessions,       \* table attendance_sessions, in rowid order
    pings,          \* table pings, in rowid order
    uploads,        \* the files of UPLOAD_DIR
    now,            \* the clock, in ticks
    stub_sessions,  \* StubRecallClient._sessions: frames of bot i, at index i
    meeting,        \* start_meeting in its frame loop: session, bot, next frame
    resp,           \* the last call and what it returned
    awaiting,       \* register_student calls suspended in await photo.read()
    frame           \* process_frame between its lookups and its db.commit()

vars == <<settings, vectors, students, sessions, pings, uploads, now,
          stub_sessions, meeting, resp, awaiting, frame>>

\* No start_meeting call is in its frame loop.
Idle == [active |-> FALSE, session_id |-> 0, bot |-> 0, next |-> 0]

\* What the last call was and what came of it: the operation, the HTTP status
\* (200 for a plain return), the id it was about, its other input, its result.
Resp(op, status, key, arg, body) ==
    [op |-> op, status |-> status, key |-> key, arg |-> arg, body |-> body]

\* The store backend is chosen once, at import; only the remote one can fail.
\* The remote backend is run with the default match threshold.
SettingsSpace ==
    {s \in [match_threshold : MatchThresholds,
            presence_threshold : {DefaultPresenceThreshold},
            pinecone : BOOLEAN] :
        s.pinecone => s.match_threshold = DefaultMatchThreshold}

Failures(enabled) == IF enabled THEN BOOLEAN ELSE {FALSE}

\* Integer primary key of a table without the AUTOINCREMENT keyword: one
\* more than the largest rowid (1 for an empty table).
RECURSIVE MaxId(_)
MaxId(table) ==
    IF table = <<>> THEN 0
    ELSE Max(table[Len(table)].id, MaxId(SubSeq(table, 1, Len(table) - 1)))

NextId(table) == MaxId(table) + 1

\* db.query(Student).filter(Student.student_id == sid).first()
StudentRows(sid) == SelectSeq(students, LAMBDA s : s.student_id = sid)
HasStudent(sid) == StudentRows(sid) # <<>>
FindStudent(sid) == StudentRows(sid)[1]

\* db.query(AttendanceSession).filter(AttendanceSession.id == id).first()
SessionRows(id) == SelectSeq(sessions, LAMBDA s : s.id = id)
HasSession(id) == SessionRows(id) # <<>>

\* No register_student call is suspended, and no process_frame call is
\* between its lookups and its commit.
NoneAwaiting == [sid \in StudentIds |-> 0]
NoFrame == <<>>

\* The service starts on the last tick of a minute.
FirstTick == TicksPerMinute - 1

Init ==
    /\ settings \in SettingsSpace
    /\ vectors = <<>>
    /\ students = <<>>
    /\ sessions = <<>>
    /\ pings = <<>>
    /\ uploads = {}
    /\ now = FirstTick
    /\ stub_sessions = <<>>
    /\ meeting = Idle
    /\ resp = Resp("none", 0, <<>>, <<>>, <<>>)
    /\ awaiting = NoneAwaiting
    /\ frame = NoFrame

----------------------------------------------------------------------------
(* POST /register/ *)

\* f"{student_id}_{uuid.uuid4().hex[:8]}{file_ext}" under UPLOAD_DIR: a name
\* no file has yet.  Which fresh name is drawn changes nothing, so the first
\* free one stands for them all.
FreshUuid(sid) == CHOOSE n \in 1..(MaxUploads + 1) :
                      /\ <<sid, n>> \notin uploads
                      /\ \A m \in 1..(n - 1) : <<sid, m>> \in uploads
PhotoPath(sid, uuid) == <<sid, uuid>>

\* A registration that creates the record before it stores the embedding.
register_student_record_first(name, sid, photo, storeFails, commitFails) ==
    LET got == get_single_embedding(photo)
        file_path == PhotoPath(sid, FreshUuid(sid))
        student == [id |-> NextId(students), name |-> name, student_id |-> sid,
                    embedding_id |-> sid, photo_path |-> file_path]
    IN
    IF HasStudent(sid) THEN
        /\ resp' = Resp("register", 400, sid, photo.faces, "already registered")
        /\ UNCHANGED <<vectors, students, uploads>>
    ELSE IF photo.kind = "empty" THEN
        /\ resp' = Resp("register", 400, sid, photo.faces, "photo is empty")
        /\ UNCHANGED <<vectors, students, uploads>>
    ELSE IF photo.kind = "corrupt" THEN
        /\ resp' = Resp("register", 500, sid, photo.faces, "load_image_from_bytes")
        /\ UNCHANGED <<vectors, students, uploads>>
    ELSE IF got.error # None THEN
        /\ resp' = Resp("register", 400, sid, photo.faces, got.error)
        /\ UNCHANGED <<vectors, students, uploads>>
    ELSE
        /\ Cardinality(uploads) < MaxUploads
        /\ student.id <= MaxRowId
        /\ uploads' = uploads \cup {file_path}
        /\ IF commitFails THEN
               /\ resp' = Resp("register", 500, sid, photo.faces, "commit")
               /\ UNCHANGED <<vectors, students>>
           ELSE
               /\ students' = Append(students, student)
               /\ IF storeFails THEN
                      /\ resp' = Resp("register", 500, sid, photo.faces, "store_embedding")
                      /\ UNCHANGED vectors
                  ELSE
                      /\ vectors' = store_embedding(vectors, sid, got.embedding)
                      /\ resp' = Resp("register", 200, sid, photo.faces, "registered")

register_student(name, sid, photo, storeFails, commitFails) ==
    LET got == get_single_embedding(photo)
        file_path == PhotoPath(sid, FreshUuid(sid))
        student == [id |-> NextId(students), name |-> name, student_id |-> sid,
                    embedding_id |-> sid, photo_path |-> file_path]
    IN
    IF HasStudent(sid) THEN
        /\ resp' = Resp("register", 400, sid, photo.faces, "already registered")
        /\ UNCHANGED <<vectors, students, uploads>>
    ELSE IF photo.kind = "empty" THEN
        /\ resp' = Resp("register", 400, sid, photo.faces, "photo is empty")
        /\ UNCHANGED <<vectors, students, uploads>>
    ELSE IF photo.kind = "corrupt" THEN
        /\ resp' = Resp("register", 500, sid, photo.faces, "load_image_from_bytes")
        /\ UNCHANGED <<vectors, students, uploads>>
    ELSE IF got.error # None THEN
        /\ resp' = Resp("register", 400, sid, photo.faces, got.error)
        /\ UNCHANGED <<vectors, students, uploads>>
    ELSE
        /\ Cardinality(uploads) < MaxUploads
        /\ student.id <= MaxRowId
        /\ uploads' = uploads \cup {file_path}
        /\ IF storeFails THEN
               /\ resp' = Resp("register", 500, sid, photo.faces, "store_embedding")
               /\ UNCHANGED <<vectors, students>>
           ELSE
               /\ vectors' = store_embedding(vectors, sid, got.embedding)
               /\ IF commitFails THEN
                      /\ resp' = Resp("register", 500, sid, photo.faces, "commit")
                      /\ UNCHANGED students
                  ELSE
                      /\ students' = Append(students, student)
                      /\ resp' = Resp("register", 200, sid, photo.faces, "registered")

\* An async handler: it runs on the event loop, which start_meeting holds
\* from its first line to its return.
RegisterStudent ==
    /\ ~meeting.active
    /\ \E name \in Names, sid \in StudentIds, photo \in Photos,
          storeFails \in Failures(settings.pinecone), commitFails \in BOOLEAN :
          register_student(name, sid, photo, storeFails, commitFails)
    /\ UNCHANGED <<awaiting, frame, settings, sessions, pings, now, stub_sessions, meeting>>

----------------------------------------------------------------------------
(* DELETE /register/{student_id} *)

\* Student.pings: the rows of pings whose student_id is the student's id.
PingsOf(student) == SelectSeq(pings, LAMBDA p : p.student_id = student.id)

\* db.delete(student); db.commit().  The relationship Student.pings has no
\* delete cascade, so the flush first sets student_id of the student's pings
\* to NULL; the column is NOT NULL, and the flush fails when there is one.
DeleteRowFails(student) == PingsOf(student) # <<>>

delete_student(sid, deleteFails, commitFails) ==
    LET student == FindStudent(sid) IN
    IF ~HasStudent(sid) THEN
        /\ resp' = Resp("delete", 404, sid, <<>>, "Student not found.")
        /\ UNCHANGED <<vectors, students, uploads>>
    ELSE IF deleteFails THEN
        /\ resp' = Resp("delete", 500, sid, <<>>, "delete_embedding")
        /\ UNCHANGED <<vectors, students, uploads>>
    ELSE
        /\ vectors' = delete_embedding(vectors, sid)
        /\ uploads' = uploads \ {student.photo_path}
        /\ IF commitFails THEN
               /\ resp' = Resp("delete", 500, sid, <<>>, "commit")
               /\ UNCHANGED students
           ELSE IF DeleteRowFails(student) THEN
               /\ resp' = Resp("delete", 500, sid, <<>>, "IntegrityError")
               /\ UNCHANGED students
           ELSE
               /\ students' = SelectSeq(students, LAMBDA s : s.id # student.id)
               /\ resp' = Resp("delete", 200, sid, <<>>, "deleted")

DeleteStudent ==
    /\ \E sid \in StudentIds,
          deleteFails \in Failures(settings.pinecone), commitFails \in BOOLEAN :
          delete_student(sid, deleteFails, commitFails)
    /\ UNCHANGED <<awaiting, frame, settings, sessions, pings, now, stub_sessions, meeting>>

----------------------------------------------------------------------------
(* The simulated meeting: StubRecallClient and POST /meeting/start *)

\* The folder of test images: file i is named by its stem i and its
\* extension, and the names sort by stem.
Extensions == <<"png", "jpg", "jpeg">>
FolderFiles == {[stem |-> i, ext |-> Extensions[((i - 1) % 3) + 1]] : i \in 1..MaxFrames}

MeetingUrls == {"/frames", "https://meet/1"}

\* os.path.isdir(meeting_url) and the files in it
IsDir(url) == url = "/frames"
ListDir(url) == IF IsDir(url) THEN FolderFiles ELSE {}

\* sorted(glob.glob(os.path.join(meeting_url, pattern)))
RECURSIVE SortedByName(_)
SortedByName(files) ==
    IF files = {} THEN <<>>
    ELSE LET first == CHOOSE f \in files : \A g \in files : f.stem <= g.stem
         IN <<first>> \o SortedByName(files \ {first})

Glob(url, ext) == {f \in ListDir(url) : f.ext = ext}

\* StubRecallClient.dispatch_bot: the frames, pattern after pattern.
dispatch_bot(url) ==
    SortedByName(Glob(url, "jpg")) \o SortedByName(Glob(url, "jpeg"))
        \o SortedByName(Glob(url, "png"))

\* StubRecallClient.get_frames
get_frames(bot) == IF bot \in DOMAIN stub_sessions THEN stub_sessions[bot] ELSE <<>>

\* start_meeting up to its frame loop: the session row and the bot.
StartMeeting ==
    /\ ~meeting.active
    /\ Len(sessions) < MaxSessions
    /\ \E url \in MeetingUrls :
        LET session == [id |-> NextId(sessions), meeting_url |-> url,
                        ended_at |-> None]
            bot == Len(stub_sessions) + 1
        IN /\ sessions' = Append(sessions, session)
           /\ stub_sessions' = Append(stub_sessions, dispatch_bot(url))
           /\ meeting' = [active |-> TRUE, session_id |-> session.id,
                          bot |-> bot, next |-> 1]
           /\ resp' = Resp("dispatch_bot", 200, session.id, url, bot)
    /\ UNCHANGED <<awaiting, frame, settings, vectors, students, pings, uploads, now>>

----------------------------------------------------------------------------
(* process_frame *)

\* A match resolver that wants the score above the threshold.
FaceMatch_above(face) ==
    LET matches == query_embedding(vectors, face, 1) IN
    IF matches # <<>> /\ matches[1].score > settings.match_threshold
    THEN LET found == StudentRows(matches[1].student_id) IN
         IF found # <<>>
         THEN <<[student |-> found[1], score |-> matches[1].score]>>
         ELSE <<>>
    ELSE <<>>

\* The loop body for one face: the accepted match, if there is one.
FaceMatch(face) ==
    LET matches == query_embedding(vectors, face, 1) IN
    IF matches # <<>> /\ matches[1].score >= settings.match_threshold
    THEN LET found == StudentRows(matches[1].student_id) IN
         IF found # <<>>
         THEN <<[student |-> found[1], score |-> matches[1].score]>>
         ELSE <<>>
    ELSE <<>>

RECURSIVE FrameMatches(_)
FrameMatches(faces) ==
    IF faces = <<>> THEN <<>>
    ELSE FaceMatch(Head(faces)) \o FrameMatches(Tail(faces))

\* The rows db.add puts in the table at db.commit(), stamped by the clock.
PingRows(table, time, session_id, accepted) ==
    [k \in 1..Len(accepted) |->
        [id |-> MaxId(table) + k, session_id |-> session_id,
         student_id |-> accepted[k].student.id, timestamp |-> time,
         matched |-> TRUE, confidence |-> accepted[k].score]]

NewPings(session_id, accepted) == PingRows(pings, now, session_id, accepted)

FrameResults(accepted) ==
    [k \in 1..Len(accepted) |->
        [student_id |-> accepted[k].student.student_id,
         name |-> accepted[k].student.name,
         confidence |-> accepted[k].score, matched |-> TRUE]]

\* A frame processor that gives the frame up at a match without a record.
process_frame_stale_raises(image, session_id) ==
    LET faces == detect_and_embed(image)
        accepted == FrameMatches(faces)
        stale == \E k \in 1..Len(faces) :
                    LET matches == query_embedding(vectors, faces[k], 1)
                    IN /\ matches # <<>>
                       /\ matches[1].score >= settings.match_threshold
                       /\ ~HasStudent(matches[1].student_id)
    IN IF stale
       THEN /\ UNCHANGED pings
            /\ resp' = Resp("process_frame", 500, session_id, faces, <<>>)
       ELSE /\ Len(pings) + Len(accepted) <= MaxPings
            /\ pings' = pings \o NewPings(session_id, accepted)
            /\ resp' = Resp("process_frame", 200, session_id, faces, FrameResults(accepted))

process_frame(image, session_id) ==
    LET faces == detect_and_embed(image)
        accepted == FrameMatches(faces)
    IN /\ Len(pings) + Len(accepted) <= MaxPings
       /\ pings' = pings \o NewPings(session_id, accepted)
       /\ resp' = Resp("process_frame", 200, session_id, faces, FrameResults(accepted))

\* One turn of start_meeting's loop over the frames.
ProcessNextFrame ==
    /\ meeting.active
    /\ meeting.next <= Len(get_frames(meeting.bot))
    /\ \E faces \in FaceLists :
          process_frame([kind |-> "image", faces |-> faces], meeting.session_id)
    /\ meeting' = [meeting EXCEPT !.next = @ + 1]
    /\ UNCHANGED <<awaiting, frame, settings, vectors, students, sessions, uploads, now,
                   stub_sessions>>

\* The loop is over: start_meeting returns.
ReturnMeeting ==
    /\ meeting.active
    /\ meeting.next > Len(get_frames(meeting.bot))
    /\ meeting' = Idle
    /\ resp' = Resp("start_meeting", 200, meeting.session_id, <<>>,
                    Len(get_frames(meeting.bot)))
    /\ UNCHANGED <<awaiting, frame, settings, vectors, students, sessions, pings, uploads,
                   now, stub_sessions>>

\* Time passes.
Tick ==
    /\ now < MaxTime
    /\ now' = now + 1
    /\ UNCHANGED <<awaiting, frame, settings, vectors, students, sessions, pings, uploads,
                   stub_sessions, meeting, resp>>

----------------------------------------------------------------------------
(* POST /meeting/webhook *)

\* The payloads of the bot service: the end of the meeting, another change
\* of the bot's status, and another event; each names a bot.
Payloads ==
    {[event |-> e, status |-> st, bot_id |-> b] :
        e \in {"bot.status_change"}, st \in {"done", "in_call"}, b \in 1..MaxSessions}
    \cup {[event |-> "bot.output", status |-> None, bot_id |-> b] : b \in 1..MaxSessions}

\* recall_webhook: it answers, and reads and writes no table.
recall_webhook(payload) ==
    /\ resp' = IF payload.event = "bot.status_change" /\ payload.status = "done"
               THEN Resp("webhook", 200, payload.bot_id,
                         <<payload.event, payload.status>>,
                         "Meeting ended, session closed.")
               ELSE Resp("webhook", 200, payload.bot_id,
                         <<payload.event, payload.status>>,
                         "Received event: " \o payload.event)
    /\ UNCHANGED <<awaiting, frame, settings, vectors, students, sessions, pings,
                   uploads, now, stub_sessions, meeting>>

\* An async handler, as register_student is.
RecallWebhook ==
    /\ ~meeting.active
    /\ \E payload \in Payloads : recall_webhook(payload)

----------------------------------------------------------------------------
(* calculate_attendance and export_attendance_csv *)

\* round(num / den, digits), in units of 10^-digits; Python rounds a tie to
\* the even neighbour.
Round(num, den, digits) ==
    LET scaled == num * (10 ^ digits)
        q == scaled \div den
        r == scaled % den
    IN IF 2 * r < den THEN q
       ELSE IF 2 * r > den THEN q + 1
       ELSE IF q % 2 = 0 THEN q ELSE q + 1

\* A grouping by the timestamp as it is.
TruncateToMinute_not(timestamp) == timestamp

\* p.timestamp.replace(second=0, microsecond=0)
TruncateToMinute(timestamp) == timestamp - (timestamp % TicksPerMinute)

RECURSIVE SumConfidence(_)
SumConfidence(rows) ==
    IF rows = <<>> THEN 0 ELSE Head(rows).confidence + SumConfidence(Tail(rows))

\* db.query(Ping).filter(Ping.session_id == session_id).all()
SessionPings(session_id) == SelectSeq(pings, LAMBDA p : p.session_id = session_id)

\* An entry that wants the ratio above the presence threshold.
ReportEntry_above(student, rows, total_pings) ==
    LET mine == SelectSeq(rows, LAMBDA p : p.matched /\ p.student_id = student.id)
        match_count == Len(mine)
    IN [student_id |-> student.student_id,
        name |-> student.name,
        status |-> IF match_count * 100 > settings.presence_threshold * total_pings
                   THEN "Present" ELSE "Absent",
        pings_matched |-> match_count,
        total_pings |-> total_pings,
        presence_ratio |-> Round(match_count, total_pings, 2),
        avg_confidence |-> IF match_count > 0
                           THEN Round(SumConfidence(mine), match_count * 100, 3)
                           ELSE 0]

\* The entry of one roster student.  presence_ratio is in hundredths and
\* avg_confidence in thousandths, as rounded by the code; the status is
\* decided on the ratio before rounding.
ReportEntry(student, rows, total_pings) ==
    LET mine == SelectSeq(rows, LAMBDA p : p.matched /\ p.student_id = student.id)
        match_count == Len(mine)
    IN [student_id |-> student.student_id,
        name |-> student.name,
        status |-> IF match_count * 100 >= settings.presence_threshold * total_pings
                   THEN "Present" ELSE "Absent",
        pings_matched |-> match_count,
        total_pings |-> total_pings,
        presence_ratio |-> Round(match_count, total_pings, 2),
        avg_confidence |-> IF match_count > 0
                           THEN Round(SumConfidence(mine), match_count * 100, 3)
                           ELSE 0]

\* An aggregator that reports only the students who have a ping.
calculate_attendance_matched_only(session_id) ==
    LET rows == SessionPings(session_id)
        unique_timestamps == {TruncateToMinute(rows[i].timestamp) : i \in 1..Len(rows)}
        total_pings == Max(Cardinality(unique_timestamps), 1)
        seen == SelectSeq(students,
                    LAMBDA s : \E i \in 1..Len(rows) : rows[i].student_id = s.id)
    IN IF rows = <<>> THEN <<>>
       ELSE [i \in 1..Len(seen) |-> ReportEntry(seen[i], rows, total_pings)]

\* An aggregator without the short-circuit on a session that has no ping.
calculate_attendance_no_short_circuit(session_id) ==
    LET rows == SessionPings(session_id)
        unique_timestamps == {TruncateToMinute(rows[i].timestamp) : i \in 1..Len(rows)}
        total_pings == Max(Cardinality(unique_timestamps), 1)
    IN [i \in 1..Len(students) |-> ReportEntry(students[i], rows, total_pings)]

calculate_attendance(session_id) ==
    LET rows == SessionPings(session_id)
        unique_timestamps == {TruncateToMinute(rows[i].timestamp) : i \in 1..Len(rows)}
        total_pings == Max(Cardinality(unique_timestamps), 1)
    IN IF rows = <<>> THEN <<>>
       ELSE [i \in 1..Len(students) |-> ReportEntry(students[i], rows, total_pings)]

CsvHeader == <<"Student ID", "Name", "Status", "Pings Matched", "Total Pings",
               "Presence Ratio", "Avg Confidence">>

export_attendance_csv(session_id) ==
    LET report == calculate_attendance(session_id)
    IN <<CsvHeader>> \o
       [i \in 1..Len(report) |->
           <<report[i].student_id, report[i].name, report[i].status,
             report[i].pings_matched, report[i].total_pings,
             report[i].presence_ratio, report[i].avg_confidence>>]

\* Session ids a caller may ask for: those in use and one never used.
SessionIds == 1..(MaxSessions + 1)

\* A report endpoint that clears the pings it has reported.
get_attendance_consuming(session_id) ==
    /\ resp' = IF ~HasSession(session_id)
               THEN Resp("get_attendance", 404, session_id, <<>>, <<>>)
               ELSE Resp("get_attendance", 200, session_id, <<>>,
                         calculate_attendance(session_id))
    /\ pings' = SelectSeq(pings, LAMBDA p : p.session_id # session_id)
    /\ UNCHANGED <<awaiting, frame, settings, vectors, students, sessions, uploads,
                   now, stub_sessions, meeting>>

\* GET /attendance/{session_id}
get_attendance(session_id) ==
    /\ resp' = IF ~HasSession(session_id)
               THEN Resp("get_attendance", 404, session_id, <<>>, <<>>)
               ELSE Resp("get_attendance", 200, session_id, <<>>,
                         calculate_attendance(session_id))
    /\ UNCHANGED <<awaiting, frame, settings, vectors, students, sessions, pings, uploads,
                   now, stub_sessions, meeting>>

\* GET /attendance/{session_id}/export
export_attendance(session_id) ==
    /\ resp' = IF ~HasSession(session_id)
               THEN Resp("export_attendance", 404, session_id, <<>>, <<>>)
               ELSE Resp("export_attendance", 200, session_id, <<>>,
                         export_attendance_csv(session_id))
    /\ UNCHANGED <<awaiting, frame, settings, vectors, students, sessions, pings, uploads,
                   now, stub_sessions, meeting>>

GetAttendance == \E session_id \in SessionIds : get_attendance(session_id)

ExportAttendance == \E session_id \in SessionIds : export_attendance(session_id)

----------------------------------------------------------------------------
(* The service *)

Next ==
    \/ RegisterStudent
    \/ DeleteStudent
    \/ StartMeeting
    \/ ProcessNextFrame
    \/ ReturnMeeting
    \/ Tick
    \/ GetAttendance
    \/ ExportAttendance
    \/ RecallWebhook

Spec == Init /\ [][Next]_vars

----------------------------------------------------------------------------
(* The embedding store on its own: the three methods of LocalVectorStore,  *)
(* called in any order.                                                    *)

TopKs == 0..(NumStudentIds + 1)

StoreEmbedding ==
    /\ \E sid \in StudentIds, e \in Embeddings :
        /\ vectors' = store_embedding(vectors, sid, e)
        /\ resp' = Resp("store_embedding", 200, sid, e, <<>>)
    /\ UNCHANGED <<awaiting, frame, settings, students, sessions, pings, uploads, now,
                   stub_sessions, meeting>>

DeleteEmbedding ==
    /\ \E sid \in StudentIds :
        /\ vectors' = delete_embedding(vectors, sid)
        /\ resp' = Resp("delete_embedding", 200, sid, <<>>, <<>>)
    /\ UNCHANGED <<awaiting, frame, settings, students, sessions, pings, uploads, now,
                   stub_sessions, meeting>>

QueryEmbedding ==
    /\ \E e \in Embeddings, top_k \in TopKs :
        resp' = Resp("query_embedding", 200, top_k, e, query_embedding(vectors, e, top_k))
    /\ UNCHANGED <<awaiting, frame, settings, vectors, students, sessions, pings, uploads, now,
                   stub_sessions, meeting>>

NextStore == StoreEmbedding \/ DeleteEmbedding \/ QueryEmbedding

SpecStore == Init /\ [][NextStore]_vars

----------------------------------------------------------------------------
(* The aggregator on its own: the tables two registrations and two         *)
(* meetings leave behind, and the report calls on them.  The first meeting *)
(* had one frame; the second ran over AggBuckets minutes, one frame a      *)
(* tick, each frame showing no face or one.                                *)

AggTicks == AggBuckets * TicksPerMinute

\* On the first tick of a minute the frame shows no face or any one face;
\* on the other ticks no face or the face of the first student.
AggFrames ==
    {frames \in [1..AggTicks -> SeqsUpTo(Embeddings, 1)] :
        \A t \in 1..AggTicks :
            (t - 1) % TicksPerMinute # 0 => frames[t] \in {<<>>, <<(<<10, 0>>)>>}}

AggStudents ==
    <<[id |-> 1, name |-> "Ann", student_id |-> "S1", embedding_id |-> "S1",
       photo_path |-> PhotoPath("S1", 1)],
      [id |-> 2, name |-> "Ann", student_id |-> "S2", embedding_id |-> "S2",
       photo_path |-> PhotoPath("S2", 1)]>>

\* process_frame on frame after frame, frame t at tick t - 1.
RECURSIVE Replay(_, _, _, _)
Replay(frames, t, session_id, table) ==
    IF t > Len(frames) THEN table
    ELSE CHOOSE result \in
            {Replay(frames, t + 1, session_id,
                    rows \o PingRows(rows, t - 1, session_id, FrameMatches(frames[t]))) :
                rows \in {table}} : TRUE

InitAgg ==
    /\ settings \in [match_threshold : {DefaultMatchThreshold},
                     presence_threshold : PresenceThresholds,
                     pinecone : {FALSE}]
    /\ vectors = store_embedding(store_embedding(<<>>, "S1", <<10, 0>>), "S2", <<6, 8>>)
    /\ students = AggStudents
    /\ uploads = {PhotoPath("S1", 1), PhotoPath("S2", 1)}
    /\ sessions = <<[id |-> 1, meeting_url |-> "/frames", ended_at |-> None],
                    [id |-> 2, meeting_url |-> "/frames", ended_at |-> None]>>
    /\ \E frames \in AggFrames :
          /\ pings = Replay(frames, 1, 2, Replay(<<(<<(<<10, 0>>)>>)>>, 1, 1, <<>>))
          /\ stub_sessions = <<(<<[stem |-> 1, ext |-> "jpg"]>>),
                               [t \in 1..AggTicks |-> [stem |-> t, ext |-> "jpg"]]>>
    /\ now = AggTicks
    /\ meeting = Idle
    /\ resp = Resp("none", 0, <<>>, <<>>, <<>>)
    /\ awaiting = NoneAwaiting
    /\ frame = NoFrame

NextAgg == GetAttendance \/ ExportAttendance

SpecAgg == InitAgg /\ [][NextAgg]_vars

----------------------------------------------------------------------------
(* The service with calls that overlap.  register_student gives up the     *)
(* event loop in await photo.read(), after its existence check, and other  *)
(* calls run before it goes on.  delete_student is a plain def: it runs on *)
(* a worker thread, also while process_frame is between the lookup of a    *)
(* student and its db.commit().                                            *)

MaxOverlap == 2         \* register_student calls suspended at once

RECURSIVE SumOver(_, _)
SumOver(f, S) ==
    IF S = {} THEN 0
    ELSE LET x == CHOOSE y \in S : TRUE IN f[x] + SumOver(f, S \ {x})

\* The number of register_student calls that wait for their photo.
Suspended == SumOver(awaiting, StudentIds)

\* register_student from await photo.read() on.  The existence check lies
\* behind: db.commit() inserts the row, and the UNIQUE constraint on
\* students.student_id refuses it when the id has a row by now.
register_student_resumed(name, sid, photo, storeFails, commitFails) ==
    LET got == get_single_embedding(photo)
        file_path == PhotoPath(sid, FreshUuid(sid))
        student == [id |-> NextId(students), name |-> name, student_id |-> sid,
                    embedding_id |-> sid, photo_path |-> file_path]
    IN
    IF photo.kind = "empty" THEN
        /\ resp' = Resp("register", 400, sid, photo.faces, "photo is empty")
        /\ UNCHANGED <<vectors, students, uploads>>
    ELSE IF photo.kind = "corrupt" THEN
        /\ resp' = Resp("register", 500, sid, photo.faces, "load_image_from_bytes")
        /\ UNCHANGED <<vectors, students, uploads>>
    ELSE IF got.error # None THEN
        /\ resp' = Resp("register", 400, sid, photo.faces, got.error)
        /\ UNCHANGED <<vectors, students, uploads>>
    ELSE
        /\ Cardinality(uploads) < MaxUploads
        /\ student.id <= MaxRowId
        /\ uploads' = uploads \cup {file_path}
        /\ IF storeFails THEN
               /\ resp' = Resp("register", 500, sid, photo.faces, "store_embedding")
               /\ UNCHANGED <<vectors, students>>
           ELSE
               /\ vectors' = store_embedding(vectors, sid, got.embedding)
               /\ IF commitFails THEN
                      /\ resp' = Resp("register", 500, sid, photo.faces, "commit")
                      /\ UNCHANGED students
                  ELSE IF HasStudent(sid) THEN
                      /\ resp' = Resp("register", 500, sid, photo.faces, "IntegrityError")
                      /\ UNCHANGED students
                  ELSE
                      /\ students' = Append(students, student)
                      /\ resp' = Resp("register", 200, sid, photo.faces, "registered")

\* register_student up to await photo.read(): the existence check.
RegisterCheck ==
    /\ ~meeting.active
    /\ \E sid \in StudentIds :
          IF HasStudent(sid) THEN
              /\ \E photo \in Photos :
                    resp' = Resp("register", 400, sid, photo.faces, "already registered")
              /\ UNCHANGED awaiting
          ELSE
              /\ Suspended < MaxOverlap
              /\ awaiting' = [awaiting EXCEPT ![sid] = @ + 1]
              /\ UNCHANGED resp
    /\ UNCHANGED <<frame, settings, vectors, students, sessions, pings, uploads,
                   now, stub_sessions, meeting>>

\* A suspended register_student call gets the event loop back.
RegisterResume ==
    /\ ~meeting.active
    /\ \E name \in Names, sid \in StudentIds, photo \in Photos,
          storeFails \in Failures(settings.pinecone), commitFails \in BOOLEAN :
          /\ awaiting[sid] > 0
          /\ awaiting' = [awaiting EXCEPT ![sid] = @ - 1]
          /\ register_student_resumed(name, sid, photo, storeFails, commitFails)
    /\ UNCHANGED <<frame, settings, sessions, pings, now, stub_sessions, meeting>>

\* process_frame up to db.commit(): the faces, and the Ping objects added to
\* the session for the students found.
FrameLookup ==
    /\ meeting.active
    /\ frame = NoFrame
    /\ meeting.next <= Len(get_frames(meeting.bot))
    /\ \E faces \in FaceLists :
          frame' = <<[faces |-> detect_and_embed([kind |-> "image", faces |-> faces]),
                      accepted |-> FrameMatches(faces)]>>
    /\ UNCHANGED <<awaiting, settings, vectors, students, sessions, pings, uploads,
                   now, stub_sessions, meeting, resp>>

\* db.commit() of process_frame, and its return.  SQLite checks no foreign
\* key unless PRAGMA foreign_keys is set, which the engine does not do: the
\* rows go in whatever has become of the students.
FrameCommit ==
    /\ meeting.active
    /\ frame # NoFrame
    /\ Len(pings) + Len(frame[1].accepted) <= MaxPings
    /\ pings' = pings \o NewPings(meeting.session_id, frame[1].accepted)
    /\ resp' = Resp("process_frame", 200, meeting.session_id, frame[1].faces,
                    FrameResults(frame[1].accepted))
    /\ frame' = NoFrame
    /\ meeting' = [meeting EXCEPT !.next = @ + 1]
    /\ UNCHANGED <<awaiting, settings, vectors, students, sessions, uploads, now,
                   stub_sessions>>

NextOverlap ==
    \/ RegisterCheck
    \/ RegisterResume
    \/ DeleteStudent
    \/ StartMeeting
    \/ FrameLookup
    \/ FrameCommit
    \/ ReturnMeeting

\* The service as it is configured out of the box: the local store and the
\* default thresholds.
InitOverlap ==
    /\ Init
    /\ ~settings.pinecone
    /\ settings.match_threshold = DefaultMatchThreshold

SpecOverlap == InitOverlap /\ [][NextOverlap]_vars

----------------------------------------------------------------------------
(* Which call a step is.  Every call but Tick writes resp; a step that      *)
(* leaves resp as it was is no new call.                                   *)

RespChanged ==
    \/ resp'.op # resp.op
    \/ resp'.status # resp.status
    \/ resp'.key # resp.key
    \/ resp'.arg # resp.arg
    \/ resp'.body # resp.body

IsCall(op) == resp'.op = op /\ RespChanged

----------------------------------------------------------------------------
(* C8 *)

\* The map a store stands for: each id it holds, with the vector held for it.
MapOf(V) == [sid \in Keys(V) |-> V[IndexOf(V, sid)].embedding]

\* What a query must return on the store V, whatever the vector and top_k.
QueryAnswersMap(V) ==
    \A e \in Embeddings, top_k \in TopKs :
        LET r == query_embedding(V, e, top_k)
            returned == {r[i].student_id : i \in 1..Len(r)}
        IN /\ Len(r) = Min(top_k, Cardinality(Keys(V)))
           /\ Cardinality(returned) = Len(r)
           /\ \A i \in 1..Len(r) :
                 /\ r[i].student_id \in Keys(V)
                 /\ r[i].score = Dot(e, MapOf(V)[r[i].student_id])
           /\ \A i \in 1..(Len(r) - 1) : r[i].score >= r[i + 1].score
           /\ \A sid \in Keys(V) \ returned, i \in 1..Len(r) :
                 Dot(e, MapOf(V)[sid]) <= r[i].score

StoreStepIsMapStep ==
    /\ IsCall("store_embedding") =>
          MapOf(vectors') = [sid \in Keys(vectors) \cup {resp'.key} |->
                                IF sid = resp'.key THEN resp'.arg
                                ELSE MapOf(vectors)[sid]]
    /\ IsCall("delete_embedding") =>
          /\ resp'.status = 200
          /\ MapOf(vectors') = [sid \in Keys(vectors) \ {resp'.key} |->
                                   MapOf(vectors)[sid]]
          /\ resp'.key \notin Keys(vectors) => vectors' = vectors
    /\ IsCall("query_embedding") =>
          /\ vectors' = vectors
          /\ resp'.body = query_embedding(vectors, resp'.arg, resp'.key)

\* C8: the store is a map from id to the latest vector stored for it: no id
\* is held twice, store_embedding sets the id's vector and leaves the others,
\* delete_embedding removes the id and does nothing (and raises nothing) for
\* an absent id, and query_embedding returns min(top_k, n) distinct held ids,
\* each with the score of its latest vector, in non-increasing score order,
\* leaving out no id that scores higher than a returned one.
C8_StoreIsLatestVectorMap ==
    /\ [](Cardinality(Keys(vectors)) = Len(vectors) /\ QueryAnswersMap(vectors))
    /\ [][StoreStepIsMapStep]_vars

\* A query for one entry answered from a store of two ids, after an id was
\* stored a second time.
C8_Witness ==
    /\ resp.op = "query_embedding" /\ resp.key = 1 /\ Len(resp.body) = 1
    /\ Len(vectors) = 2
    /\ vectors[1].embedding # vectors[2].embedding
    /\ resp.body[1].student_id = vectors[2].student_id

----------------------------------------------------------------------------
(* C1 *)

\* A step of start_meeting's loop: one call of process_frame.
IsFrameStep == meeting.active /\ meeting'.active /\ meeting'.next = meeting.next + 1

\* The rows a step added to table pings.
AddedPings == SubSeq(pings', Len(pings) + 1, Len(pings'))

\* The best score the store holds for a face, and the id it returns for it.
BestScore(face) ==
    LET scores == {Dot(face, vectors[i].embedding) : i \in 1..Len(vectors)}
    IN CHOOSE x \in scores : \A y \in scores : x >= y

BestId(face) == query_embedding(vectors, face, 1)[1].student_id

AtOrAboveThreshold(face) ==
    vectors # <<>> /\ BestScore(face) >= settings.match_threshold

\* C1 as claimed: process_frame writes one ping for each face whose best
\* score is at or above the match threshold, and none for any other face.
C1_PingForEveryScoreAtOrAbove ==
    [][IsFrameStep =>
        LET hits == SelectSeq(resp'.arg, AtOrAboveThreshold)
        IN /\ Len(AddedPings) = Len(hits)
           /\ \A k \in 1..Len(hits) : AddedPings[k].confidence = BestScore(hits[k])
      ]_vars

MatchedAndKnown(face) ==
    AtOrAboveThreshold(face) /\ HasStudent(BestId(face))

\* C1 amended: process_frame writes one ping for each face whose best score
\* is at or above the match threshold (the threshold itself included) and
\* whose matched student_id has a Student record, with that score, student
\* and session, and none for any other face.
C1_PingIffAtOrAboveAndKnown ==
    [][IsFrameStep =>
        LET hits == SelectSeq(resp'.arg, MatchedAndKnown)
        IN /\ Len(AddedPings) = Len(hits)
           /\ \A k \in 1..Len(hits) :
                 /\ AddedPings[k].confidence = BestScore(hits[k])
                 /\ AddedPings[k].confidence >= settings.match_threshold
                 /\ AddedPings[k].student_id = FindStudent(BestId(hits[k])).id
                 /\ AddedPings[k].session_id = meeting.session_id
                 /\ AddedPings[k].matched
      ]_vars

\* A frame whose face scored the threshold exactly and got the last ping of
\* the table.
C1_Witness ==
    /\ resp.op = "process_frame" /\ Len(resp.body) = 1
    /\ resp.body[1].confidence = settings.match_threshold
    /\ pings # <<>>
    /\ pings[Len(pings)].confidence = settings.match_threshold

----------------------------------------------------------------------------
(* C2 *)

RosterIds == {students[i].student_id : i \in 1..Len(students)}

HasPings(session_id) == \E i \in 1..Len(pings) : pings[i].session_id = session_id

PingCount(student, session_id) ==
    Cardinality({i \in 1..Len(pings) : /\ pings[i].session_id = session_id
                                       /\ pings[i].student_id = student.id})

\* C2: for a session that has a ping, the report holds one entry for each
\* student of the roster and no other entry, and the entry of a student
\* without a ping in the session has pings_matched 0, status "Absent" and
\* avg_confidence 0.0.
C2_OneEntryPerRosterStudent ==
    \A session_id \in SessionIds :
        HasPings(session_id) =>
            LET report == calculate_attendance(session_id)
            IN /\ Len(report) = Len(students)
               /\ Cardinality(RosterIds) = Len(students)
               /\ {report[i].student_id : i \in 1..Len(report)} = RosterIds
               /\ \A i \in 1..Len(students) :
                     PingCount(students[i], session_id) = 0 =>
                        \E j \in 1..Len(report) :
                            /\ report[j].student_id = students[i].student_id
                            /\ report[j].pings_matched = 0
                            /\ report[j].status = "Absent"
                            /\ report[j].avg_confidence = 0

\* A report of two entries, one of a student with a ping and one of a student
\* without, returned for the tables as they are.
C2_Witness ==
    /\ resp.op = "get_attendance" /\ resp.status = 200
    /\ resp.body = calculate_attendance(resp.key)
    /\ Len(resp.body) = 2
    /\ \E i, j \in 1..2 : resp.body[i].pings_matched = 0 /\ resp.body[j].pings_matched > 0

----------------------------------------------------------------------------
(* C5 *)

\* C5: for a session id without a ping, used or not, calculate_attendance
\* returns the empty report, whatever the roster, and export_attendance_csv
\* the header row alone.
C5_NoPingsEmptyReport ==
    \A session_id \in SessionIds :
        ~HasPings(session_id) =>
            /\ calculate_attendance(session_id) = <<>>
            /\ export_attendance_csv(session_id) = <<CsvHeader>>

\* The export of a session without a ping, with students registered.
C5_Witness ==
    /\ resp.op = "export_attendance" /\ resp.status = 200
    /\ ~HasPings(resp.key)
    /\ students # <<>>
    /\ resp.body = <<CsvHeader>>

----------------------------------------------------------------------------
(* C6 *)

\* C6: a report call leaves the tables, the embedding store and the upload
\* directory as they were, and the report it returned is the report a second
\* call for the session returns right after it.
C6_ReportReadOnlyIdempotent ==
    [][\A session_id \in SessionIds :
        (IsCall("get_attendance") /\ resp'.status = 200 /\ resp'.key = session_id) =>
            /\ UNCHANGED <<students, sessions, pings, vectors, uploads>>
            /\ resp'.body = calculate_attendance(session_id)'
      ]_vars

\* A report with entries was returned and the tables still yield it.
C6_Witness ==
    /\ resp.op = "get_attendance" /\ resp.status = 200
    /\ resp.body # <<>>
    /\ resp.body = calculate_attendance(resp.key)
    /\ HasPings(resp.key)

----------------------------------------------------------------------------
(* C7 *)

\* C7 as claimed: a delete_student call for a registered student, with or
\* without pings, that meets no transient failure of the store or of the
\* database leaves neither an embedding nor a record of the student.
C7_DeleteRemovesEmbeddingAndRecord ==
    [][\A sid \in StudentIds :
        (/\ IsCall("delete") /\ resp'.key = sid
         /\ HasStudent(sid)
         /\ resp'.body \notin {"delete_embedding", "commit"})
        => (sid \notin Keys(vectors') /\ ~HasStudent(sid)')
      ]_vars

----------------------------------------------------------------------------
(* C9 *)

IsRegisterCall == IsCall("register")

\* C9: a registration of an id that is registered, or with a photo that does
\* not show exactly one face, is refused and changes neither the tables nor
\* the embedding store nor the upload directory; and get_single_embedding
\* gives an embedding exactly for an image of one face.
C9_RejectedRegistrationWritesNothing ==
    /\ [](\A photo \in Photos :
            /\ get_single_embedding(photo).error = None <=> Len(photo.faces) = 1
            /\ Len(photo.faces) = 1 =>
                  get_single_embedding(photo).embedding = photo.faces[1])
    /\ [][(IsRegisterCall /\ (HasStudent(resp'.key) \/ Len(resp'.arg) # 1)) =>
            /\ resp'.status # 200
            /\ UNCHANGED <<students, sessions, pings, vectors, uploads>>
         ]_vars

\* A photo of two faces was refused with students and photos in place.
C9_Witness ==
    /\ resp.op = "register" /\ resp.status = 400
    /\ Len(resp.arg) = 2
    /\ ~HasStudent(resp.key)
    /\ students # <<>> /\ uploads # {}

----------------------------------------------------------------------------
(* C10 *)

\* C10: a registration that fails, in store_embedding or before it, creates
\* no Student record; a record is created only by a call that has saved the
\* photo and stored the embedding.
C10_NoRecordUnlessEmbeddingStored ==
    [][\A sid \in StudentIds :
        (IsRegisterCall /\ resp'.key = sid) =>
            /\ resp'.status # 200 => students' = students
            /\ resp'.body = "store_embedding" => ~HasStudent(sid)'
            /\ students' # students =>
                  /\ Len(students') = Len(students) + 1
                  /\ HasStudent(sid)'
                  /\ FindStudent(sid)'.photo_path \in uploads'
                  /\ sid \in Keys(vectors')
                  /\ MapOf(vectors')[sid] = resp'.arg[1]
      ]_vars

\* store_embedding failed: the photo is saved, and there is no record and no
\* embedding of the student.
C10_Witness ==
    /\ resp.op = "register" /\ resp.body = "store_embedding"
    /\ ~HasStudent(resp.key)
    /\ resp.key \notin Keys(vectors)
    /\ \E path \in uploads : path[1] = resp.key

----------------------------------------------------------------------------
(* C3 *)

\* The minutes in which the session has a ping.
Buckets(session_id) ==
    {pings[i].timestamp \div TicksPerMinute :
        i \in {j \in 1..Len(pings) : pings[j].session_id = session_id}}

----------------------------------------------------------------------------
(* C4 *)

\* C4: an entry's status is "Present" exactly when the student's pings over
\* the session's minutes, as an exact fraction, is at or above
\* presence_threshold, and "Absent" otherwise.
C4_PresentIffRatioAtOrAbove ==
    \A session_id \in SessionIds :
        LET report == calculate_attendance(session_id)
        IN \A i \in 1..Len(report) :
            /\ report[i].status \in {"Present", "Absent"}
            /\ report[i].status = "Present" <=>
                  100 * PingCount(students[i], session_id)
                     >= settings.presence_threshold * Cardinality(Buckets(session_id))

\* 3 pings over 5 minutes at threshold 0.6: Present.
C4_Witness ==
    /\ resp.op = "get_attendance" /\ resp.status = 200
    /\ settings.presence_threshold = 60
    /\ \E i \in 1..Len(resp.body) :
          /\ resp.body[i].pings_matched = 3
          /\ resp.body[i].total_pings = 5
          /\ resp.body[i].status = "Present"

----------------------------------------------------------------------------
(* C11 *)

\* A step in which a suspended register_student call for sid goes on.
IsResumeOf(sid) == awaiting'[sid] = awaiting[sid] - 1

\* C11 as claimed: of two register_student calls for one student_id that
\* both pass the existence check before either commits, one succeeds and the
\* other, going on with a photo of one face when the id has its record, is
\* refused with the duplicate-id error and leaves the record and the
\* embedding of the first as they are; no id has two records.
C11_OverlappingRegistrationsSerialize ==
    /\ [](Cardinality(RosterIds) = Len(students))
    /\ [][\A sid \in StudentIds :
            (/\ IsResumeOf(sid)
             /\ HasStudent(sid)
             /\ Len(resp'.arg) = 1
             /\ resp'.body # "commit")
            => /\ resp'.status = 400
               /\ resp'.body = "already registered"
               /\ UNCHANGED <<students, vectors>>
         ]_vars

----------------------------------------------------------------------------
(* C13 *)

HasStudentRow(id) == \E j \in 1..Len(students) : students[j].id = id

\* C13 as claimed: every row of pings has matched = true, the id of a row of
\* attendance_sessions and the id of a row of students.
C13_PingsReferToSessionAndStudent ==
    \A i \in 1..Len(pings) :
        /\ pings[i].matched
        /\ HasSession(pings[i].session_id)
        /\ HasStudentRow(pings[i].student_id)

----------------------------------------------------------------------------
(* C12 *)

\* The best match of the face is at or above the threshold and its id has no
\* Student record.
IsStale(face) == AtOrAboveThreshold(face) /\ ~HasStudent(BestId(face))

\* C12: process_frame returns normally whatever faces match an id without a
\* record; such a face gets no ping and no result entry, every other face
\* that matches gets its ping and its entry, in the order of the faces, and
\* the call returns as many entries as it wrote pings.
C12_StaleMatchSkippedSilently ==
    [][IsFrameStep =>
        LET faces == resp'.arg
            others == SelectSeq(faces, LAMBDA f : ~IsStale(f))
            hits == SelectSeq(others, AtOrAboveThreshold)
        IN /\ resp'.status = 200
           /\ Len(resp'.body) = Len(AddedPings)
           /\ Len(resp'.body) = Len(hits)
           /\ \A k \in 1..Len(hits) :
                 /\ resp'.body[k].student_id = BestId(hits[k])
                 /\ resp'.body[k].confidence = BestScore(hits[k])
                 /\ AddedPings[k].student_id = FindStudent(BestId(hits[k])).id
           /\ \A k \in 1..Len(resp'.body) : HasStudent(resp'.body[k].student_id)
           /\ UNCHANGED <<students, vectors>>
      ]_vars

\* A frame of two faces, the first matching an embedding whose id has no
\* record and the second a registered student: one entry and one ping, the
\* second face's.
C12_Witness ==
    /\ resp.op = "process_frame" /\ resp.status = 200
    /\ Len(resp.arg) = 2 /\ Len(resp.body) = 1
    /\ IsStale(resp.arg[1])
    /\ MatchedAndKnown(resp.arg[2])
    /\ resp.body[1].student_id = BestId(resp.arg[2])
    /\ pings # <<>>
    /\ pings[Len(pings)].student_id = FindStudent(BestId(resp.arg[2])).id

----------------------------------------------------------------------------
(* C14 *)

\* C14 as claimed: a delete_student call in which delete_embedding fails
\* removes the student's record all the same.
C14_EmbeddingDeletionFailureDoesNotBlock ==
    [][\A sid \in StudentIds :
        (/\ IsCall("delete") /\ resp'.key = sid
         /\ HasStudent(sid)
         /\ resp'.body = "delete_embedding")
        => ~HasStudent(sid)'
      ]_vars

----------------------------------------------------------------------------
(* C15 *)

IsOpen(session) == session.ended_at = None

\* The webhook was told that the meeting of the bot is over.
IsDoneFor(bot) ==
    /\ IsCall("webhook")
    /\ resp'.key = bot
    /\ resp'.arg = <<"bot.status_change", "done">>

\* C15 as claimed: start_meeting creates the session Open; the webhook call
\* that reports status "done" for the meeting's bot leaves it Closed; a
\* Closed session stays Closed, and no session is deleted.
C15_SessionClosedWhenMeetingEnds ==
    /\ [][Len(sessions') > Len(sessions) => IsOpen(sessions'[Len(sessions')])]_vars
    /\ [][\A i \in 1..Len(sessions) :
            /\ i <= Len(sessions')
            /\ sessions'[i].id = sessions[i].id
            /\ ~IsOpen(sessions[i]) => ~IsOpen(sessions'[i])]_vars
    /\ [][\A bot \in 1..Len(sessions) :
            IsDoneFor(bot) => ~IsOpen(sessions'[bot])]_vars

----------------------------------------------------------------------------
(* C16 *)

\* C16 as claimed: start_meeting processes the files of the folder one at a
\* time in ascending order of their names, whatever their extensions: each
\* frame it processes has a later name than the frame before it.
C16_FramesInFilenameOrder ==
    [][(IsFrameStep /\ meeting.next > 1) =>
          get_frames(meeting.bot)[meeting.next - 1].stem
              < get_frames(meeting.bot)[meeting.next].stem
      ]_vars

----------------------------------------------------------------------------
(* C17 *)

\* C17 as claimed: the report's presence_ratio is pings_matched over
\* total_pings exactly, and its avg_confidence the mean of the student's
\* confidences exactly; no rounding has been applied to them.
C17_ReportKeepsFullPrecision ==
    \A session_id \in SessionIds :
        LET report == calculate_attendance(session_id)
        IN \A i \in 1..Len(report) :
            LET mine == SelectSeq(SessionPings(session_id),
                            LAMBDA p : p.student_id = students[i].id)
            IN /\ report[i].presence_ratio * report[i].total_pings
                     = 100 * report[i].pings_matched
               /\ report[i].avg_confidence * Len(mine) = 10 * SumConfidence(mine)

====
